---- MODULE Spec2Model ----
(***************************************************************************)
(* Model of the scheduling engine of JobScheduler.cpp: the Job record, the *)
(* four Scheduler classes (FCFS, SJF, Round Robin, Priority with aging)    *)
(* and the time-stepped loop of Simulator::run.                            *)
(***************************************************************************)
EXTENDS Integers, Sequences, FiniteSets, TLC

(* ---------------- bounds of the explored inputs ---------------- *)
MaxJobs == 2
MaxArrival == 1
MaxWork == 4
MaxPriority == 1
MaxQuantum == 2
MaxThreshold == 1
MaxTime == 3

(* ---------------- program constants ---------------- *)
\* UIController::currentAlgorithm values, createSimulator's switch
FCFS == 0
SJF == 1
RR == 2
PRIORITY == 3
\* the "unset" sentinel of startTime and completionTime
Unset == -1
\* the default agingIncrement of PriorityScheduler and of the UIController
DefaultAgingIncrement == 1

Policies == {FCFS, SJF, RR, PRIORITY}

VARIABLES
    jobs,            \* the submitted job list (UIController::jobs / the ctor argument)
    policy,          \* which Scheduler subclass the Simulator owns
    timeQuantum,     \* RoundRobinScheduler::timeQuantum
    agingThreshold,  \* PriorityScheduler::agingThreshold
    agingIncrement,  \* PriorityScheduler::agingIncrement
    built,           \* how the Simulator was built: "none", "empty", "createSimulator"
    pc,              \* position in Simulator::run
    currentTime,     \* Simulator::currentTime
    allJobs,         \* Simulator::allJobs (the backlog)
    finishedJobs,    \* Simulator::finishedJobs
    ganttChart,      \* Simulator::ganttChart, pairs <<jobId, time>>
    queue,           \* the policy's ready-set (fcfsQueue/sjfQueue/rrQueue/priorityQueue)
    scheduledJobs    \* Scheduler::scheduledJobs

vars == <<jobs, policy, timeQuantum, agingThreshold, agingIncrement, built, pc,
          currentTime, allJobs, finishedJobs, ganttChart, queue, scheduledJobs>>

(* ---------------- Job ---------------- *)
\* Job::Job(int id, int arrival, int burst, int prio)
Job(id, arrival, burst, prio) ==
    [jobId |-> id, arrivalTime |-> arrival, burstTime |-> burst, priority |-> prio,
     remainingTime |-> burst, startTime |-> Unset, completionTime |-> Unset,
     waitingTime |-> 0, turnaroundTime |-> 0]

\* bug variant: the waiting time is taken from remainingTime instead of burstTime
calculateMetrics_Remaining(job) ==
    LET t == job.completionTime - job.arrivalTime
    IN  [job EXCEPT !.turnaroundTime = t, !.waitingTime = t - job.remainingTime]

\* bug variant: the waiting time is accumulated instead of assigned
calculateMetrics_Accumulate(job) ==
    LET t == job.completionTime - job.arrivalTime
    IN  [job EXCEPT !.turnaroundTime = t, !.waitingTime = @ + t - job.burstTime]

\* Job::calculateMetrics
calculateMetrics(job) ==
    LET t == job.completionTime - job.arrivalTime
    IN  [job EXCEPT !.turnaroundTime = t, !.waitingTime = t - job.burstTime]

(* ---------------- sequence helpers ---------------- *)
RemoveAt(s, i) == [k \in 1..(Len(s) - 1) |-> IF k < i THEN s[k] ELSE s[k + 1]]

\* std::min_element: the first position holding a smallest key
MinElement(keys) ==
    CHOOSE i \in 1..Len(keys) :
        /\ \A j \in 1..Len(keys) : keys[i] <= keys[j]
        /\ \A j \in 1..(i - 1) : keys[j] > keys[i]

\* std::sort is not stable: every ordering of the positions that is ascending
\* in the keys is a possible outcome
RECURSIVE SortedOrders(_, _)
SortedOrders(keys, I) ==
    IF I = {} THEN {<<>>}
    ELSE LET m == CHOOSE k \in {keys[i] : i \in I} : \A j \in I : k <= keys[j]
         IN  UNION {{<<i>> \o rest : rest \in SortedOrders(keys, I \ {i})} :
                    i \in {j \in I : keys[j] = m}}

StdSort(s, keys) ==
    {[k \in 1..Len(s) |-> s[ord[k]]] : ord \in SortedOrders(keys, 1..Len(s))}

RemainingKeys(q) == [i \in 1..Len(q) |-> q[i].remainingTime]
BurstKeys(q) == [i \in 1..Len(q) |-> q[i].burstTime]
PriorityKeys(q) == [i \in 1..Len(q) |-> q[i].priority]

\* what getNextJob returns on an empty ready-set
NoJob == Job(-1, 0, 0, 0)

(* ---------------- FCFSScheduler ---------------- *)
FCFSScheduler_addJob(q, job) == Append(q, job)

\* bug variant: front() without pop()
FCFSScheduler_getNextJob_NoPop(q) ==
    IF q = <<>> THEN [job |-> NoJob, queue |-> q, taken |-> FALSE]
    ELSE [job |-> Head(q), queue |-> q, taken |-> TRUE]

FCFSScheduler_getNextJob(q) ==
    IF q # <<>> THEN [job |-> Head(q), queue |-> Tail(q), taken |-> TRUE]
    ELSE [job |-> NoJob, queue |-> q, taken |-> FALSE]

FCFSScheduler_schedule(q, t) == {q}

\* bug variant: the old content of the queue is not removed
FCFSScheduler_setJobs_NoClear(q, js) == {q \o js}

FCFSScheduler_setJobs(q, js) == {js}

(* ---------------- SJFScheduler ---------------- *)
SJFScheduler_addJob(q, job) == Append(q, job)

\* bug variant: the comparator is reversed, so the longest job is taken
SJFScheduler_getNextJob_Longest(q) ==
    IF q = <<>> THEN [job |-> NoJob, queue |-> q, taken |-> FALSE]
    ELSE LET it == MinElement([i \in 1..Len(q) |-> 0 - q[i].remainingTime])
         IN  [job |-> q[it], queue |-> RemoveAt(q, it), taken |-> TRUE]

\* bug variant: erase removes every job that has the least remaining time
SJFScheduler_getNextJob_ErasesTies(q) ==
    IF q = <<>> THEN [job |-> NoJob, queue |-> q, taken |-> FALSE]
    ELSE LET it == MinElement(RemainingKeys(q))
         IN  [job |-> q[it],
              queue |-> SelectSeq(q, LAMBDA j : j.remainingTime # q[it].remainingTime),
              taken |-> TRUE]

SJFScheduler_getNextJob(q) ==
    IF q = <<>> THEN [job |-> NoJob, queue |-> q, taken |-> FALSE]
    ELSE LET it == MinElement(RemainingKeys(q))
         IN  [job |-> q[it], queue |-> RemoveAt(q, it), taken |-> TRUE]

SJFScheduler_schedule(q, t) == StdSort(q, RemainingKeys(q))

SJFScheduler_setJobs(q, js) == StdSort(js, BurstKeys(js))

(* ---------------- RoundRobinScheduler ---------------- *)
\* bug variant: the job is put at the front of the queue
RoundRobinScheduler_addJob_Front(q, job) == <<job>> \o q

RoundRobinScheduler_addJob(q, job) == Append(q, job)

RoundRobinScheduler_getNextJob(q) ==
    IF q = <<>> THEN [job |-> NoJob, queue |-> q, taken |-> FALSE]
    ELSE [job |-> Head(q), queue |-> Tail(q), taken |-> TRUE]

RoundRobinScheduler_schedule(q, t) == {q}

RoundRobinScheduler_setJobs(q, js) == {js}

(* ---------------- PriorityScheduler ---------------- *)
PriorityScheduler_addJob(q, job) == Append(q, job)

\* bug variant: the comparator is <=, so the last of the tied jobs is taken
PriorityScheduler_getNextJob_LastMin(q) ==
    IF q = <<>> THEN [job |-> NoJob, queue |-> q, taken |-> FALSE]
    ELSE LET keys == PriorityKeys(q)
             it == CHOOSE i \in 1..Len(q) :
                       /\ \A j \in 1..Len(q) : keys[i] <= keys[j]
                       /\ \A j \in (i + 1)..Len(q) : keys[j] > keys[i]
         IN  [job |-> q[it], queue |-> RemoveAt(q, it), taken |-> TRUE]

PriorityScheduler_getNextJob(q) ==
    IF q = <<>> THEN [job |-> NoJob, queue |-> q, taken |-> FALSE]
    ELSE LET it == MinElement(PriorityKeys(q))
         IN  [job |-> q[it], queue |-> RemoveAt(q, it), taken |-> TRUE]

\* bug variant: the threshold test is not strict
applyAging_NotStrict(q, t) ==
    [i \in 1..Len(q) |->
        IF t - q[i].arrivalTime >= agingThreshold
        THEN LET p == q[i].priority - agingIncrement
             IN  [q[i] EXCEPT !.priority = IF p < 0 THEN 0 ELSE p]
        ELSE q[i]]

\* PriorityScheduler::applyAging
applyAging(q, t) ==
    [i \in 1..Len(q) |->
        IF t - q[i].arrivalTime > agingThreshold
        THEN LET p == q[i].priority - agingIncrement
             IN  [q[i] EXCEPT !.priority = IF p < 0 THEN 0 ELSE p]
        ELSE q[i]]

PriorityScheduler_schedule(q, t) ==
    LET aged == applyAging(q, t) IN StdSort(aged, PriorityKeys(aged))

PriorityScheduler_setJobs(q, js) == StdSort(js, PriorityKeys(js))

(* ---------------- virtual dispatch on the Scheduler interface ---------------- *)
addJob(p, q, job) ==
    CASE p = FCFS -> FCFSScheduler_addJob(q, job)
      [] p = SJF -> SJFScheduler_addJob(q, job)
      [] p = RR -> RoundRobinScheduler_addJob(q, job)
      [] p = PRIORITY -> PriorityScheduler_addJob(q, job)

getNextJob(p, q) ==
    CASE p = FCFS -> FCFSScheduler_getNextJob(q)
      [] p = SJF -> SJFScheduler_getNextJob(q)
      [] p = RR -> RoundRobinScheduler_getNextJob(q)
      [] p = PRIORITY -> PriorityScheduler_getNextJob(q)

schedule(p, q, t) ==
    CASE p = FCFS -> FCFSScheduler_schedule(q, t)
      [] p = SJF -> SJFScheduler_schedule(q, t)
      [] p = RR -> RoundRobinScheduler_schedule(q, t)
      [] p = PRIORITY -> PriorityScheduler_schedule(q, t)

setJobs(p, q, js) ==
    CASE p = FCFS -> FCFSScheduler_setJobs(q, js)
      [] p = SJF -> SJFScheduler_setJobs(q, js)
      [] p = RR -> RoundRobinScheduler_setJobs(q, js)
      [] p = PRIORITY -> PriorityScheduler_setJobs(q, js)

\* bug variant: a single waiting job does not count
hasJobs_Several(q) == Len(q) > 1

hasJobs(q) == q # <<>>

(* ---------------- the steps of Simulator::run ---------------- *)
\* bug variant: the admission test is strict
Arrived_Strict(job, t) == job.arrivalTime < t

\* the admission test of the for loop
Arrived(job, t) == job.arrivalTime <= t

\* bug variant: an arriving job is put in front of the waiting jobs
RECURSIVE AdmitAll_ArrivalsFirst(_, _, _, _)
AdmitAll_ArrivalsFirst(p, q, all, t) ==
    IF all = <<>> THEN q
    ELSE AdmitAll_ArrivalsFirst(p, IF Arrived(Head(all), t) THEN <<Head(all)>> \o q ELSE q,
                                Tail(all), t)

\* the for loop over allJobs: the arrived jobs are added in backlog order
RECURSIVE AdmitAll(_, _, _, _)
AdmitAll(p, q, all, t) ==
    IF all = <<>> THEN q
    ELSE AdmitAll(p, IF Arrived(Head(all), t) THEN addJob(p, q, Head(all)) ELSE q,
                  Tail(all), t)

NotArrived(all, t) == SelectSeq(all, LAMBDA j : ~Arrived(j, t))

\* bug variant: the first execution only stamps startTime
ExecuteUnit_NoDecrementOnStart(job, t) ==
    IF job.startTime = Unset THEN [job EXCEPT !.startTime = t]
    ELSE [job EXCEPT !.remainingTime = @ - 1]

\* bug variant: startTime is stamped at every execution
ExecuteUnit_Restamp(job, t) ==
    [job EXCEPT !.startTime = t, !.remainingTime = @ - 1]

\* the job after the simulator has executed it for one time unit at time t
\* bug variant: a time unit of execution takes two units of remaining time
ExecuteUnit_TwoUnits(job, t) ==
    LET started == IF job.startTime = Unset THEN [job EXCEPT !.startTime = t] ELSE job
    IN  [started EXCEPT !.remainingTime = @ - 2]

ExecuteUnit(job, t) ==
    LET started == IF job.startTime = Unset THEN [job EXCEPT !.startTime = t] ELSE job
    IN  [started EXCEPT !.remainingTime = @ - 1]

\* bug variant: the completion time is the time unit of the last execution
Complete_BeforeTick(job, t) == calculateMetrics([job EXCEPT !.completionTime = t - 1])

\* the completion branch
Complete(job, t) == calculateMetrics([job EXCEPT !.completionTime = t])

\* run() as a function of its start state, for the two queue policies (their
\* schedule() is a no-op, so each step has one outcome)
RECURSIVE RunFrom(_, _, _, _, _, _)
RunFrom(p, t, all, q, fin, gantt) ==
    IF ~(all # <<>> \/ hasJobs(q))
    THEN [currentTime |-> t, finishedJobs |-> fin, ganttChart |-> gantt]
    ELSE LET admitted == AdmitAll(p, q, all, t)
             rest == NotArrived(all, t)
             sorted == CHOOSE x \in schedule(p, admitted, t) : TRUE
         IN  IF hasJobs(sorted)
             THEN LET next == getNextJob(p, sorted)
                      job == ExecuteUnit(next.job, t)
                      chart == Append(gantt, <<next.job.jobId, t>>)
                  IN  IF job.remainingTime = 0
                      THEN RunFrom(p, t + 1, rest, next.queue,
                                   Append(fin, Complete(job, t + 1)), chart)
                      ELSE RunFrom(p, t + 1, rest, addJob(p, next.queue, job), fin, chart)
             ELSE RunFrom(p, t + 1, rest, sorted, fin, gantt)

(* ---------------- inputs ---------------- *)
PrioritiesFor(p) == IF p = PRIORITY THEN 0..MaxPriority ELSE {0}

RECURSIVE TotalBurst(_)
TotalBurst(js) == IF js = <<>> THEN 0 ELSE Head(js).burstTime + TotalBurst(Tail(js))

\* well-formed job lists: ids 1..n, arrival >= 0, burst >= 1, priority >= 0,
\* at most MaxJobs jobs and at most MaxWork time units of work in all
JobLists(p) ==
    UNION {{js \in {[i \in 1..n |-> Job(i, f[i][1], f[i][2], f[i][3])] :
                    f \in [1..n -> (0..MaxArrival) \X (1..MaxWork) \X PrioritiesFor(p)]} :
             TotalBurst(js) <= MaxWork} :
           n \in 0..MaxJobs}

\* the scenario of the specification's testable properties
Scenario == <<Job(1, 0, 4, 0), Job(2, 1, 2, 0)>>

\* a single job that arrives after an idle gap
LateJob == <<Job(1, 2, 1, 0)>>

\* the two scenarios are run under the policies that ignore the priority
Scenarios(p) == IF p = PRIORITY THEN {} ELSE {Scenario, LateJob}

Init ==
    /\ policy \in Policies
    /\ jobs \in JobLists(policy) \cup Scenarios(policy)
    /\ timeQuantum \in IF policy = RR THEN 1..MaxQuantum ELSE {0}
    /\ agingThreshold \in IF policy = PRIORITY THEN 1..MaxThreshold ELSE {0}
    /\ agingIncrement \in IF policy = PRIORITY THEN {DefaultAgingIncrement} ELSE {0}
    /\ built = "none"
    /\ pc = "new"
    /\ currentTime = 0
    /\ allJobs = <<>>
    /\ finishedJobs = <<>>
    /\ ganttChart = <<>>
    /\ queue = <<>>
    /\ scheduledJobs = <<>>

config == <<jobs, policy, timeQuantum, agingThreshold, agingIncrement>>

(* ---------------- construction ---------------- *)
\* Simulator::Simulator given a freshly constructed scheduler
NewSimulator ==
    /\ pc = "new"
    /\ built' = "empty"
    /\ queue' = <<>>
    /\ scheduledJobs' = <<>>
    /\ allJobs' = jobs
    /\ currentTime' = 0
    /\ pc' = "loop"
    /\ UNCHANGED <<config, finishedJobs, ganttChart>>

\* UIController::createSimulator: setJobs(jobs), then Simulator(sched, jobs);
\* its callers return early when jobs is empty
CreateSimulator ==
    /\ pc = "new"
    /\ jobs # <<>>
    /\ built' = "createSimulator"
    /\ queue' \in setJobs(policy, queue, jobs)
    /\ scheduledJobs' = <<>>
    /\ allJobs' = jobs
    /\ currentTime' = 0
    /\ pc' = "loop"
    /\ UNCHANGED <<config, finishedJobs, ganttChart>>

(* ---------------- Simulator::run ---------------- *)
\* the while condition fails: run returns
LoopExit ==
    /\ pc = "loop"
    /\ ~(allJobs # <<>> \/ hasJobs(queue))
    /\ pc' = "done"
    /\ UNCHANGED <<config, built, currentTime, allJobs, finishedJobs, ganttChart,
                   queue, scheduledJobs>>

\* the while condition holds and the admission loop runs
Admit ==
    /\ pc = "loop"
    /\ (allJobs # <<>> \/ hasJobs(queue))
    /\ queue' = AdmitAll(policy, queue, allJobs, currentTime)
    /\ allJobs' = NotArrived(allJobs, currentTime)
    /\ pc' = "schedule"
    /\ UNCHANGED <<config, built, currentTime, finishedJobs, ganttChart, scheduledJobs>>

\* scheduler->schedule(currentTime)
Schedule ==
    /\ pc = "schedule"
    /\ queue' \in schedule(policy, queue, currentTime)
    /\ pc' = "dispatch"
    /\ UNCHANGED <<config, built, currentTime, allJobs, finishedJobs, ganttChart,
                   scheduledJobs>>

\* the branch that executes one time unit
\* bug variant: the timeline entry is made after the clock has advanced
Execute_RecordsAfterTick ==
    /\ pc = "dispatch"
    /\ hasJobs(queue)
    /\ LET next == getNextJob(policy, queue)
           job == ExecuteUnit(next.job, currentTime)
       IN  /\ scheduledJobs' = IF next.taken THEN Append(scheduledJobs, next.job)
                               ELSE scheduledJobs
           /\ currentTime' = currentTime + 1
           /\ ganttChart' = Append(ganttChart, <<next.job.jobId, currentTime'>>)
           /\ IF job.remainingTime = 0
              THEN /\ finishedJobs' = Append(finishedJobs, Complete(job, currentTime + 1))
                   /\ queue' = next.queue
              ELSE /\ finishedJobs' = finishedJobs
                   /\ queue' = addJob(policy, next.queue, job)
    /\ pc' = "loop"
    /\ UNCHANGED <<config, built, allJobs>>

Execute ==
    /\ pc = "dispatch"
    /\ hasJobs(queue)
    /\ LET next == getNextJob(policy, queue)
           job == ExecuteUnit(next.job, currentTime)
       IN  /\ scheduledJobs' = IF next.taken THEN Append(scheduledJobs, next.job)
                               ELSE scheduledJobs
           /\ ganttChart' = Append(ganttChart, <<next.job.jobId, currentTime>>)
           /\ currentTime' = currentTime + 1
           /\ IF job.remainingTime = 0
              THEN /\ finishedJobs' = Append(finishedJobs, Complete(job, currentTime + 1))
                   /\ queue' = next.queue
              ELSE /\ finishedJobs' = finishedJobs
                   /\ queue' = addJob(policy, next.queue, job)
    /\ pc' = "loop"
    /\ UNCHANGED <<config, built, allJobs>>

\* bug variant: the idle branch forgets to advance the clock
Idle_NoTick ==
    /\ pc = "dispatch"
    /\ ~hasJobs(queue)
    /\ pc' = "loop"
    /\ UNCHANGED <<config, built, currentTime, allJobs, finishedJobs, ganttChart, queue,
                   scheduledJobs>>

\* the branch that only advances the clock
\* bug variant: an idle time unit is recorded in the timeline under the id -1
Idle_RecordsGap ==
    /\ pc = "dispatch"
    /\ ~hasJobs(queue)
    /\ ganttChart' = Append(ganttChart, <<-1, currentTime>>)
    /\ currentTime' = currentTime + 1
    /\ pc' = "loop"
    /\ UNCHANGED <<config, built, allJobs, finishedJobs, queue, scheduledJobs>>

Idle ==
    /\ pc = "dispatch"
    /\ ~hasJobs(queue)
    /\ currentTime' = currentTime + 1
    /\ pc' = "loop"
    /\ UNCHANGED <<config, built, allJobs, finishedJobs, ganttChart, queue, scheduledJobs>>

\* Simulator::run, one step
Run ==
    \/ LoopExit
    \/ Admit
    \/ Schedule
    \/ Execute
    \/ Idle

\* a Simulator over a scheduler that starts with an empty ready-set
Next ==
    \/ NewSimulator
    \/ Run

Spec == Init /\ [][Next]_vars

\* run() is sequential code: it keeps taking its next step
FairSpec == Spec /\ WF_vars(Next)

\* the Simulator as the program builds it
\* job lists as the Job constructor (lines 31-33) and the Simulator constructor
\* (lines 262-263) accept them: nothing is validated, so a burst of 0, a negative
\* arrival time or a negative priority gets through; at least one job is such
MalformedLists(p) ==
    UNION {{js \in {[i \in 1..n |-> Job(i, f[i][1], f[i][2], f[i][3])] :
                    f \in [1..n -> ((-1)..MaxArrival) \X (0..1) \X
                                   (IF p = PRIORITY THEN (-1)..MaxPriority ELSE {0})]} :
             \E i \in 1..n : js[i].burstTime < 1 \/ js[i].arrivalTime < 0
                                 \/ js[i].priority < 0} :
           n \in 1..MaxJobs}

InitMalformed ==
    /\ policy \in Policies
    /\ jobs \in MalformedLists(policy)
    /\ timeQuantum \in IF policy = RR THEN 1..MaxQuantum ELSE {0}
    /\ agingThreshold \in IF policy = PRIORITY THEN 1..MaxThreshold ELSE {0}
    /\ agingIncrement \in IF policy = PRIORITY THEN {DefaultAgingIncrement} ELSE {0}
    /\ built = "none"
    /\ pc = "new"
    /\ currentTime = 0
    /\ allJobs = <<>>
    /\ finishedJobs = <<>>
    /\ ganttChart = <<>>
    /\ queue = <<>>
    /\ scheduledJobs = <<>>

\* the loop of run() observed for its first MaxTime time units: with a job of
\* burst 0 the loop never ends
AdmitWithin == currentTime < MaxTime /\ Admit

NextMalformed ==
    \/ NewSimulator
    \/ LoopExit
    \/ AdmitWithin
    \/ Schedule
    \/ Execute
    \/ Idle

SpecMalformed == InitMalformed /\ [][NextMalformed]_vars

\* Scheduler::setJobs called on the scheduler of a run in progress or ended, or
\* once more after such a call: it replaces the ready-set and clears
\* scheduledJobs
SetJobs ==
    /\ pc \in {"loop", "done", "reset"}
    /\ queue' \in setJobs(policy, queue, jobs)
    /\ scheduledJobs' = <<>>
    /\ pc' = "reset"
    /\ UNCHANGED <<config, built, currentTime, allJobs, finishedJobs, ganttChart>>

NextReset ==
    \/ NewSimulator
    \/ Run
    \/ SetJobs

SpecReset == Init /\ [][NextReset]_vars

NextUI ==
    \/ CreateSimulator
    \/ Run

SpecUI == Init /\ [][NextUI]_vars

(* ======================= properties ======================= *)
Last(s) == s[Len(s)]

\* every Job object the simulator and its policy hold
Records ==
    {allJobs[i] : i \in 1..Len(allJobs)} \cup {queue[i] : i \in 1..Len(queue)}
        \cup {finishedJobs[i] : i \in 1..Len(finishedJobs)}

\* the timeline positions at which job id was executed
GanttEntries(id) == {k \in 1..Len(ganttChart) : ganttChart[k][1] = id}

\* the time unit of the first execution of job id, Unset when it has none
FirstExecution(id) ==
    IF GanttEntries(id) = {} THEN Unset
    ELSE ganttChart[CHOOSE k \in GanttEntries(id) : \A m \in GanttEntries(id) : k <= m][2]

FinishedEntries(id) == {k \in 1..Len(finishedJobs) : finishedJobs[k].jobId = id}

\* C1: started with an empty ready-set, when run() has returned the timeline has
\* as many entries as the submitted jobs have burst time in all, and each job's
\* id appears in it exactly burstTime times.
C1_WorkAccounted ==
    (pc = "done" /\ built = "empty") =>
        /\ Len(ganttChart) = TotalBurst(jobs)
        /\ \A i \in 1..Len(jobs) :
               Cardinality(GanttEntries(jobs[i].jobId)) = jobs[i].burstTime

C1_Witness ==
    /\ pc = "done" /\ built = "empty"
    /\ Len(jobs) = 2
    /\ jobs[1].burstTime = 2 /\ jobs[2].burstTime = 2
    /\ Len(ganttChart) = 4

\* C2: started with an empty ready-set, under each policy, a job's startTime is
\* unset until its first execution, is then the time unit of that first
\* execution and never changes afterwards; every finished job has
\* arrivalTime <= startTime <= completionTime.
C2_StartStamp ==
    built = "empty" =>
        /\ \A r \in Records : r.startTime = FirstExecution(r.jobId)
        /\ \A k \in 1..Len(finishedJobs) :
               /\ finishedJobs[k].arrivalTime <= finishedJobs[k].startTime
               /\ finishedJobs[k].startTime <= finishedJobs[k].completionTime

C2_SetOnceStep ==
    built = "empty" =>
        \A r \in Records : \A n \in Records' :
            (r.jobId = n.jobId /\ r.startTime # Unset) => n.startTime = r.startTime

\* C2: startTime is the time unit of the first execution in every state, and no
\* step changes a startTime that is set.
C2_StartTimeSetOnce == [](C2_StartStamp) /\ [][C2_SetOnceStep]_vars

\* a job that was started, put back, and executed again later
C2_Witness ==
    /\ built = "empty"
    /\ \E i \in 1..Len(finishedJobs) :
           /\ finishedJobs[i].startTime > finishedJobs[i].arrivalTime
           /\ finishedJobs[i].completionTime > finishedJobs[i].startTime + 1
           /\ Cardinality(GanttEntries(finishedJobs[i].jobId)) >= 2

\* C3: started with an empty ready-set, every finished job has
\* turnaroundTime = completionTime - arrivalTime,
\* waitingTime = turnaroundTime - burstTime and waitingTime >= 0.
C3_Metrics ==
    built = "empty" =>
        \A k \in 1..Len(finishedJobs) :
            LET j == finishedJobs[k]
            IN  /\ j.turnaroundTime = j.completionTime - j.arrivalTime
                /\ j.waitingTime = j.turnaroundTime - j.burstTime
                /\ j.waitingTime >= 0

\* a finished job that had to wait
C3_Witness ==
    /\ built = "empty"
    /\ \E k \in 1..Len(finishedJobs) :
           finishedJobs[k].waitingTime > 0 /\ finishedJobs[k].burstTime >= 2

\* C4: for every well-formed job list and each policy run() terminates: the
\* loop reaches the state where backlog and ready-set are both empty.
C4_Terminates == <>(pc = "done" /\ allJobs = <<>> /\ queue = <<>>)

\* a run that had an idle time unit and executed jobs has returned
C4_Witness ==
    /\ pc = "done" /\ allJobs = <<>> /\ queue = <<>>
    /\ Len(finishedJobs) = 2
    /\ currentTime > Len(ganttChart)

\* C5: built by createSimulator (setJobs(jobs) on the policy, the same jobs as
\* the backlog), after run() every submitted job is in finishedJobs exactly once.
C5_FinishedExactlyOnce ==
    (pc = "done" /\ built = "createSimulator") =>
        \A i \in 1..Len(jobs) : Cardinality(FinishedEntries(jobs[i].jobId)) = 1

\* C6: built by createSimulator, a job is in the ready-set only once
\* arrivalTime <= currentTime, and no timeline entry <<jobId, t>> has t smaller
\* than that job's arrivalTime.
C6_NoExecutionBeforeArrival ==
    built = "createSimulator" =>
        /\ \A i \in 1..Len(queue) : queue[i].arrivalTime <= currentTime
        /\ \A k \in 1..Len(ganttChart) :
               jobs[ganttChart[k][1]].arrivalTime <= ganttChart[k][2]

\* C7: on the same job list, for every time quantum, the run under FCFS and the
\* run under Round Robin end with the same timeline and the same finished
\* sequence.
C7_FCFSEqualsRoundRobin ==
    (pc = "done" /\ built = "empty" /\ policy \in {FCFS, RR}) =>
        LET other == IF policy = FCFS THEN RR ELSE FCFS
            r == RunFrom(other, 0, jobs, <<>>, <<>>, <<>>)
        IN  /\ ganttChart = r.ganttChart
            /\ finishedJobs = r.finishedJobs
            /\ currentTime = r.currentTime

\* a Round Robin run with quantum 2 in which two jobs alternated unit by unit
C7_Witness ==
    /\ pc = "done" /\ built = "empty" /\ policy = RR /\ timeQuantum = 2
    /\ Len(ganttChart) >= 3
    /\ ganttChart[1][1] # ganttChart[2][1]
    /\ ganttChart[3][1] = ganttChart[1][1]

\* C8: under SJF, the job executed at a time unit has, before the decrement, a
\* remainingTime no larger than that of any job in the ready-set at that time.
C8_Step ==
    (pc = "dispatch" /\ policy = SJF /\ hasJobs(queue)) =>
        LET run == Last(scheduledJobs')
        IN  /\ Last(ganttChart') = <<run.jobId, currentTime>>
            /\ \E i \in 1..Len(queue) : queue[i] = run
            /\ \A i \in 1..Len(queue) : run.remainingTime <= queue[i].remainingTime

\* C8: every execute step under SJF takes a job of least remainingTime.
C8_SJFPicksShortest == [][C8_Step]_vars

\* a job was executed while a job with more remaining time stayed ready
C8_Witness ==
    /\ policy = SJF /\ pc = "loop" /\ scheduledJobs # <<>>
    /\ \E i \in 1..Len(queue) :
           /\ queue[i].jobId # Last(scheduledJobs).jobId
           /\ queue[i].remainingTime > Last(scheduledJobs).remainingTime

\* C9: for {job 1: arrival 0, burst 4; job 2: arrival 1, burst 2} under SJF,
\* job 1 executes time unit 0, job 2 executes time unit 1 (before job 1 runs
\* again), and job 2 completes strictly before job 1.
C9_Scenario ==
    (built = "empty" /\ policy = SJF /\ jobs = Scenario) =>
        /\ Len(ganttChart) >= 1 => ganttChart[1] = <<1, 0>>
        /\ Len(ganttChart) >= 2 => ganttChart[2] = <<2, 1>>
        /\ pc = "done" =>
               \E a, b \in 1..Len(finishedJobs) :
                   /\ finishedJobs[a].jobId = 2
                   /\ finishedJobs[b].jobId = 1
                   /\ finishedJobs[a].completionTime < finishedJobs[b].completionTime

C9_Witness ==
    /\ pc = "done" /\ built = "empty" /\ policy = SJF /\ jobs = Scenario
    /\ Len(finishedJobs) = 2 /\ Len(ganttChart) = 6

\* C10: under PriorityAging, the step before the selection of a time unit gives
\* every ready job with currentTime - arrivalTime > agingThreshold the priority
\* max(0, priority - agingIncrement) and leaves the priority of the others
\* unchanged; so a ready job past the threshold has a priority that is at most
\* max(0, submitted priority - agingIncrement), and no priority is below 0.
AgedPriority(job, t) ==
    IF t - job.arrivalTime > agingThreshold
    THEN IF job.priority - agingIncrement < 0 THEN 0 ELSE job.priority - agingIncrement
    ELSE job.priority

C10_Step ==
    (pc = "schedule" /\ policy = PRIORITY) =>
        /\ Len(queue') = Len(queue)
        /\ \A i \in 1..Len(queue) : \E j \in 1..Len(queue') :
               queue'[j] = [queue[i] EXCEPT !.priority = AgedPriority(queue[i], currentTime)]

C10_Aged ==
    policy = PRIORITY =>
        /\ \A r \in Records : r.priority >= 0
        /\ pc = "dispatch" =>
               \A i \in 1..Len(queue) :
                   currentTime - queue[i].arrivalTime > agingThreshold =>
                       LET p == jobs[queue[i].jobId].priority - agingIncrement
                       IN  queue[i].priority <= IF p < 0 THEN 0 ELSE p

\* C10: every schedule step under PriorityAging ages exactly the ready jobs past
\* the threshold, clamped at 0.
C10_Aging == [](C10_Aged) /\ [][C10_Step]_vars

\* the aging step has lowered the priority of a ready job
C10_Witness ==
    /\ policy = PRIORITY /\ pc = "dispatch"
    /\ \E i \in 1..Len(queue) :
           /\ currentTime - queue[i].arrivalTime > agingThreshold
           /\ queue[i].priority < jobs[queue[i].jobId].priority

\* C11: under PriorityAging the job executed at a time unit has, after that time
\* unit's aging step, a priority no larger than that of any ready job, and it is
\* the earliest job of the ready-set among those of least priority.
C11_Step ==
    (pc = "dispatch" /\ policy = PRIORITY /\ hasJobs(queue)) =>
        LET run == Last(scheduledJobs')
            least == {i \in 1..Len(queue) :
                         \A j \in 1..Len(queue) : queue[i].priority <= queue[j].priority}
            first == CHOOSE i \in least : \A j \in least : i <= j
        IN  /\ Last(ganttChart') = <<run.jobId, currentTime>>
            /\ \A i \in 1..Len(queue) : run.priority <= queue[i].priority
            /\ run = queue[first]

C11_PriorityPicksLeast == [][C11_Step]_vars

\* a job was executed while another job of the same priority was ready, the
\* priority of one of the two having been lowered by aging
C11_Witness ==
    /\ policy = PRIORITY /\ pc = "loop" /\ scheduledJobs # <<>>
    /\ \E i \in 1..Len(queue) :
           /\ queue[i].jobId # Last(scheduledJobs).jobId
           /\ queue[i].priority = Last(scheduledJobs).priority
           /\ jobs[queue[i].jobId].priority # jobs[Last(scheduledJobs).jobId].priority

Malformed(job) == job.burstTime < 1 \/ job.arrivalTime < 0 \/ job.priority < 0

\* C12: a malformed job (burstTime < 1, negative arrivalTime or negative
\* priority) is rejected at construction or before it is run: it is never
\* executed and no metrics are produced for it.
C12_MalformedRejected ==
    \A i \in 1..Len(jobs) :
        Malformed(jobs[i]) => GanttEntries(i) = {} /\ FinishedEntries(i) = {}

\* C13: a job of burstTime 0 submitted to run() is never selected for execution
\* (no timeline entry carries its id) and never appears in finished.
C13_ZeroBurstNeverRuns ==
    \A i \in 1..Len(jobs) :
        jobs[i].burstTime = 0 =>
            /\ \A k \in 1..Len(ganttChart) : ganttChart[k][1] # i
            /\ \A k \in 1..Len(finishedJobs) : finishedJobs[k].jobId # i

\* C14: computing the metrics of a finished job a second time leaves
\* turnaroundTime and waitingTime as the first computation set them and changes
\* no other field of the job.
C14_MetricsIdempotent ==
    \A k \in 1..Len(finishedJobs) :
        LET once == finishedJobs[k]
            twice == calculateMetrics(once)
        IN  /\ twice.turnaroundTime = once.turnaroundTime
            /\ twice.waitingTime = once.waitingTime
            /\ twice = once

\* the metrics of a finished job are not zero, so computing them again from the
\* stored values could change them
C14_Witness ==
    /\ pc = "done"
    /\ \E k \in 1..Len(finishedJobs) :
           /\ finishedJobs[k].waitingTime > 0
           /\ finishedJobs[k].turnaroundTime > finishedJobs[k].waitingTime
           /\ finishedJobs[k].arrivalTime > 0

\* C15: in every state of a run over jobs of burstTime >= 1 every job has
\* 0 <= remainingTime <= burstTime; remainingTime is 0 exactly for the jobs in
\* finished and at least 1 for every job in the backlog or the ready-set.
C15_RemainingTimeRange ==
    /\ \A j \in Records : 0 <= j.remainingTime /\ j.remainingTime <= j.burstTime
    /\ \A k \in 1..Len(finishedJobs) : finishedJobs[k].remainingTime = 0
    /\ \A i \in 1..Len(allJobs) : allJobs[i].remainingTime >= 1
    /\ \A i \in 1..Len(queue) : queue[i].remainingTime >= 1
    /\ \A j \in Records :
           j.remainingTime = 0 <=> \E k \in 1..Len(finishedJobs) : finishedJobs[k] = j

\* one job is finished and another, partly executed, waits in the ready-set
C15_Witness ==
    /\ finishedJobs # <<>>
    /\ \E i \in 1..Len(queue) :
           queue[i].remainingTime >= 1 /\ queue[i].remainingTime < queue[i].burstTime

\* the record of job id after the step: the one appended to finished, or the one
\* put back into the ready-set
C16_After(id) ==
    IF Len(finishedJobs') > Len(finishedJobs) THEN Last(finishedJobs')
    ELSE queue'[CHOOSE i \in 1..Len(queue') : queue'[i].jobId = id]

C16_Step ==
    \* an iteration is one admission, one schedule() and one dispatch
    /\ pc = "loop" => pc' \in {"schedule", "done"}
    /\ pc = "schedule" => pc' = "dispatch"
    /\ pc = "dispatch" => pc' = "loop"
    \* the clock moves in the dispatch only, by one
    /\ currentTime' = IF pc = "dispatch" THEN currentTime + 1 ELSE currentTime
    \* the timeline grows by at most one entry and keeps the entries it has
    /\ Len(ganttChart') \in {Len(ganttChart), Len(ganttChart) + 1}
    /\ SubSeq(ganttChart', 1, Len(ganttChart)) = ganttChart
    \* an entry is made exactly when a job is selected
    /\ Len(ganttChart') = Len(ganttChart) + 1 <=> (pc = "dispatch" /\ hasJobs(queue))
    /\ (pc = "dispatch" /\ hasJobs(queue)) =>
           LET run == Last(scheduledJobs')
           IN  /\ Len(scheduledJobs') = Len(scheduledJobs) + 1
               /\ \E i \in 1..Len(queue) : queue[i] = run
               /\ Last(ganttChart') = <<run.jobId, currentTime>>
               /\ C16_After(run.jobId).jobId = run.jobId
               /\ C16_After(run.jobId).remainingTime = run.remainingTime - 1

C16_Increasing ==
    /\ \A k \in 1..Len(ganttChart) : \A m \in 1..Len(ganttChart) :
           k < m => ganttChart[k][2] < ganttChart[m][2]
    /\ \A k \in 1..Len(ganttChart) : ganttChart[k][2] < currentTime

\* C16: every iteration of run() increases currentTime by exactly 1 and appends
\* at most one timeline entry; an iteration that selects a job decrements that
\* job's remainingTime by exactly 1 and records (jobId, t) with t the value of
\* currentTime before the increment, so the time units of the timeline are
\* strictly increasing; existing entries are never changed or removed.
C16_OneUnitPerIteration == [](C16_Increasing) /\ [][C16_Step]_vars

\* the timeline has two entries with an idle time unit before or between them
C16_Witness ==
    /\ pc = "loop"
    /\ Len(ganttChart) >= 2
    /\ currentTime > Len(ganttChart)
    /\ Last(ganttChart)[2] = currentTime - 1

C17_Step ==
    \* the admission of an iteration that leaves the ready-set empty
    /\ (pc = "loop" /\ pc' = "schedule" /\ queue' = <<>> /\ allJobs' # <<>>) =>
           UNCHANGED <<currentTime, ganttChart, finishedJobs, allJobs, queue>>
    \* schedule() on the empty ready-set
    /\ (pc = "schedule" /\ queue = <<>> /\ allJobs # <<>>) =>
           /\ pc' = "dispatch"
           /\ UNCHANGED <<currentTime, ganttChart, finishedJobs, allJobs, queue>>
    \* the else branch
    /\ (pc = "dispatch" /\ queue = <<>> /\ allJobs # <<>>) =>
           /\ pc' = "loop"
           /\ currentTime' = currentTime + 1
           /\ UNCHANGED <<ganttChart, finishedJobs, allJobs, queue, scheduledJobs>>

\* C17: in an iteration of run() where, after admission, the ready-set is empty
\* while the backlog is not, currentTime advances by 1 and the timeline, the
\* finished sequence, the backlog and every job's fields are left unchanged.
C17_IdleIteration == [][C17_Step]_vars

\* an idle iteration has ended: the clock has advanced, nothing was executed and
\* the backlog still holds a job
C17_Witness ==
    /\ pc = "loop"
    /\ currentTime >= 1
    /\ ganttChart = <<>>
    /\ allJobs # <<>>
    /\ queue = <<>>

\* C18: for each of the four policies getNextJob on a non-empty ready-set removes
\* exactly one job (the size decreases by 1, the returned job is no longer in
\* it) and leaves the fields of every other ready job unchanged; on an empty
\* ready-set it returns the empty signal and leaves the ready-set empty.
C18_GetNextJobFrame ==
    LET got == getNextJob(policy, queue)
    IN  IF queue = <<>>
        THEN /\ got.job = Job(-1, 0, 0, 0)
             /\ got.queue = <<>>
             /\ ~got.taken
        ELSE /\ got.taken
             /\ Len(got.queue) = Len(queue) - 1
             /\ \A k \in 1..Len(got.queue) : got.queue[k].jobId # got.job.jobId
             /\ \E i \in 1..Len(queue) :
                    /\ queue[i] = got.job
                    /\ got.queue = SubSeq(queue, 1, i - 1) \o SubSeq(queue, i + 1, Len(queue))

\* a job has been taken from a ready-set of two, and in the ready-set of now the
\* job to take is not the front one
C18_Witness ==
    /\ scheduledJobs # <<>>
    /\ Len(queue) >= 2
    /\ getNextJob(policy, queue).job # queue[1]

\* the key of the variant's canonical order
C19_Key(job) ==
    CASE policy \in {FCFS, RR} -> job.jobId
      [] policy = SJF -> job.burstTime
      [] policy = PRIORITY -> job.priority

C19_Step ==
    pc' = "reset" =>
        \* exactly the given jobs, each once, and nothing from before
        /\ Len(queue') = Len(jobs)
        /\ \A i \in 1..Len(jobs) : \E k \in 1..Len(queue') : queue'[k] = jobs[i]
        /\ \A k \in 1..Len(queue') : \E i \in 1..Len(jobs) : queue'[k] = jobs[i]
        \* in the canonical order
        /\ policy \in {FCFS, RR} => queue' = jobs
        /\ \A k \in 1..Len(queue') : \A m \in 1..Len(queue') :
               k < m => C19_Key(queue'[k]) <= C19_Key(queue'[m])
        \* a second call gives what the first gave
        /\ pc = "reset" =>
               /\ Len(queue') = Len(queue)
               /\ \A k \in 1..Len(queue) : C19_Key(queue'[k]) = C19_Key(queue[k])
               /\ policy \in {FCFS, RR} => queue' = queue

\* C19: for each policy setJobs(jobs) called in any prior state leaves the
\* ready-set holding exactly the given jobs and nothing from before, in the
\* variant's canonical order (FCFS and RoundRobin: the given order; SJF:
\* ascending burst time; PriorityAging: ascending priority), so calling it twice
\* gives the same ready-set as calling it once.
C19_SetJobsResets == [][C19_Step]_vars

\* setJobs was called while the ready-set held both jobs, partly executed, and
\* it put them in an order other than the given one
C19_Witness ==
    /\ pc = "reset"
    /\ ganttChart # <<>>
    /\ finishedJobs = <<>>
    /\ allJobs = <<>>
    /\ Len(jobs) = 2
    /\ queue # jobs

\* the time unit of the last execution of job id
C20_LastExecution(id) ==
    ganttChart[CHOOSE k \in GanttEntries(id) : \A m \in GanttEntries(id) : m <= k][2]

C20_Finished ==
    built = "empty" =>
        /\ \A i \in 1..Len(jobs) :
               /\ Cardinality(FinishedEntries(i)) <= 1
               /\ pc = "done" => Cardinality(FinishedEntries(i)) = 1
        /\ \A k \in 1..Len(finishedJobs) :
               LET f == finishedJobs[k]
               IN  /\ f.remainingTime = 0
                   /\ GanttEntries(f.jobId) # {}
                   /\ f.completionTime = C20_LastExecution(f.jobId) + 1
                   \* it is in finished only: neither in the backlog nor ready
                   /\ \A i \in 1..Len(allJobs) : allJobs[i].jobId # f.jobId
                   /\ \A i \in 1..Len(queue) : queue[i].jobId # f.jobId

C20_Step ==
    built = "empty" =>
        \* finished records stay as they are and where they are
        /\ Len(finishedJobs') \in {Len(finishedJobs), Len(finishedJobs) + 1}
        /\ SubSeq(finishedJobs', 1, Len(finishedJobs)) = finishedJobs
        \* a job is appended in the iteration that brings its remainingTime to 0
        /\ Len(finishedJobs') = Len(finishedJobs) + 1 <=>
               /\ pc = "dispatch" /\ hasJobs(queue)
               /\ Last(scheduledJobs').remainingTime = 1
        /\ Len(finishedJobs') = Len(finishedJobs) + 1 =>
               /\ Last(finishedJobs').jobId = Last(scheduledJobs').jobId
               /\ Last(finishedJobs').remainingTime = 0
               /\ Last(finishedJobs').completionTime = currentTime + 1
               /\ Last(ganttChart') = <<Last(finishedJobs').jobId, currentTime>>
        \* a finished job is not executed again
        /\ Len(ganttChart') > Len(ganttChart) =>
               \A k \in 1..Len(finishedJobs) :
                   finishedJobs[k].jobId # Last(ganttChart')[1]

\* C20: for a Simulator started with an empty policy ready-set each submitted
\* job is appended to finished at most once during the run and exactly once by
\* termination, in the iteration in which its remainingTime reaches 0, with
\* completionTime the time unit of its last execution plus 1; a job in finished
\* is never re-admitted, executed or modified afterwards.
C20_FinishedOnce == [](C20_Finished) /\ [][C20_Step]_vars

\* run() has returned; the job that finished first had been preempted, and
\* another job was executed after it had finished
C20_Witness ==
    /\ built = "empty" /\ pc = "done"
    /\ Len(finishedJobs) = 2
    /\ finishedJobs[1].completionTime
           > finishedJobs[1].startTime + finishedJobs[1].burstTime
    /\ Last(ganttChart)[1] = finishedJobs[2].jobId

\* job i has arrived by time unit t and is not finished when t begins
C21_Pending(i, t) ==
    /\ jobs[i].arrivalTime <= t
    /\ ~\E k \in 1..Len(finishedJobs) :
           finishedJobs[k].jobId = i /\ finishedJobs[k].completionTime <= t

\* C21: started with an empty ready-set the simulator is work-conserving under
\* every policy: every elapsed time unit t at which some submitted job has
\* arrivalTime <= t and is not yet finished has a timeline entry; a time unit
\* has no entry only if every job that has arrived by then is finished.
C21_WorkConserving ==
    built = "empty" =>
        \A t \in 0..(currentTime - 1) :
            (\E i \in 1..Len(jobs) : C21_Pending(i, t))
                => \E k \in 1..Len(ganttChart) : ganttChart[k][2] = t

\* the run has ended after an idle first time unit and then two busy time units
\* in which two jobs, both arrived, were executed one after the other
C21_Witness ==
    /\ built = "empty" /\ pc = "done"
    /\ Len(ganttChart) >= 2
    /\ ganttChart[1][2] = 1
    /\ ganttChart[1][1] # ganttChart[2][1]
    /\ C21_Pending(ganttChart[2][1], 1)

\* after the admission of time unit t+1 the job executed at t, if it is still
\* in the queue, stands before every job that arrived at t+1
C22_Requeued ==
    (pc \in {"schedule", "dispatch"} /\ ganttChart # <<>>) =>
        \A i \in 1..Len(queue) : \A n \in 1..Len(queue) :
            (/\ Last(ganttChart) = <<queue[i].jobId, currentTime - 1>>
             /\ queue[n].arrivalTime = currentTime)
                => i < n

\* in the timeline a job executed at t and not finished by it is executed again
\* before any execution of a job that arrived at t+1
C22_SelectedAhead ==
    \A k \in 1..Len(ganttChart) :
        LET a == ganttChart[k][1]
            t == ganttChart[k][2]
        IN  (~\E f \in 1..Len(finishedJobs) :
                 finishedJobs[f].jobId = a /\ finishedJobs[f].completionTime = t + 1)
            => \A b \in 1..Len(jobs) : \A m \in GanttEntries(b) :
                   jobs[b].arrivalTime = t + 1
                       => \E n \in GanttEntries(a) : k < n /\ n < m

\* C22: under FCFS and RoundRobin a job executed at time unit t and not finished
\* is put back in the queue before the jobs that arrive at t+1 are admitted, so
\* it is selected ahead of them; for {job 1: arrival 0, burst 4; job 2: arrival
\* 1, burst 2} job 1 executes time units 0 and 1 before job 2 executes for the
\* first time at time unit 2.
C22_RequeueBeforeArrivals ==
    (built = "empty" /\ policy \in {FCFS, RR}) =>
        /\ C22_Requeued
        /\ C22_SelectedAhead
        /\ jobs = Scenario =>
               /\ Len(ganttChart) >= 1 => ganttChart[1] = <<1, 0>>
               /\ Len(ganttChart) >= 2 => ganttChart[2] = <<1, 1>>
               /\ Len(ganttChart) >= 3 => ganttChart[3] = <<2, 2>>
               /\ FirstExecution(2) \in {Unset, 2}

\* the scenario under Round Robin, at the selection of time unit 2: job 1 was
\* executed at 0 and 1 and put back, job 2 arrived at 1 and is executed now
C22_Witness ==
    /\ built = "empty" /\ policy = RR /\ jobs = Scenario
    /\ pc = "loop" /\ currentTime = 3
    /\ ganttChart = <<<<1, 0>>, <<1, 1>>, <<2, 2>>>>
    /\ Len(queue) = 2 /\ queue[1].jobId = 1

\* the time units a timeline occupies
C23_TimeUnits(chart) == {chart[k][2] : k \in 1..Len(chart)}

\* C23: for the same well-formed job list the four policies, each started with
\* an empty ready-set, produce timelines that occupy exactly the same set of
\* time units and end the run at the same currentTime; only the job ids given
\* to those time units differ between policies.
C23_SameTimeUnits ==
    (pc = "done" /\ built = "empty") =>
        \A p \in {FCFS, SJF, RR} :
            LET r == RunFrom(p, 0, jobs, <<>>, <<>>, <<>>)
            IN  /\ C23_TimeUnits(ganttChart) = C23_TimeUnits(r.ganttChart)
                /\ Len(ganttChart) = Len(r.ganttChart)
                /\ currentTime = r.currentTime

\* a run under PriorityAging has ended whose timeline, after an idle time unit,
\* gives a time unit to another job than the FCFS run of the same list does
C23_Witness ==
    /\ pc = "done" /\ built = "empty" /\ policy = PRIORITY
    /\ currentTime > Len(ganttChart)
    /\ \E k \in 1..Len(ganttChart) :
           ganttChart[k] # RunFrom(FCFS, 0, jobs, <<>>, <<>>, <<>>).ganttChart[k]

====
